---- MODULE Spec2Model ----
(***************************************************************************)
(* Notely: API-key authentication layer.                                   *)
(*   internal/auth  GetAPIKey          (src/unnamed/part_000)              *)
(*   json.go        respondWithError / respondWithJSON                     *)
(*   main.go        route registration under /v1                          *)
(* Strings are sequences of one-character strings, so that strings.Split   *)
(* and the scheme comparison are computed character by character.          *)
(***************************************************************************)
EXTENDS Integers, Sequences, FiniteSets, TLC

VARIABLES dbConfigured, store, req, tt, hdr, gots, tpc

vars == <<dbConfigured, store, req, tt, hdr, gots, tpc>>
serverVars == <<dbConfigured, store, req>>
testVars == <<tt, hdr, gots, tpc>>

\* ------------------------------------------------------------ bounds
MaxTokens == 3
NumReqs == 2
MaxCalls == 3

\* ------------------------------------------------------------ strings
EmptyStr == <<>>
SP == " "
ApiKeyStr == <<"A", "p", "i", "K", "e", "y">>

NilErr == "nil"
ErrNoAuthHeaderIncluded == "no authorization header included"
ErrMalformed == "malformed authorization header"

\* Space-free words the header values are assembled from.
Words ==
  { EmptyStr,
    ApiKeyStr,
    <<"a", "p", "i", "k", "e", "y">>,
    <<"A", "p", "i", "K", "e", "y", "s">>,
    <<"B", "e", "a", "r", "e", "r">>,
    <<"k">>,
    <<"k", "2">> }

RECURSIVE JoinSP(_)
JoinSP(ws) ==
  IF Len(ws) = 0 THEN EmptyStr
  ELSE IF Len(ws) = 1 THEN ws[1]
  ELSE ws[1] \o <<SP>> \o JoinSP(Tail(ws))

WordSeqs(n) == UNION { [1..m -> Words] : m \in 1..n }

HeaderValues == { JoinSP(ws) : ws \in WordSeqs(MaxTokens) }

\* http.Header restricted to the key the program reads: the list of values
\* stored under "Authorization" (an absent key and an empty list read alike).
SecondValues == { EmptyStr, ApiKeyStr \o <<SP, "k">> }

AllHeaders ==
  { [Authorization |-> <<>>] }
    \cup { [Authorization |-> <<v>>] : v \in HeaderValues }
    \cup { [Authorization |-> <<v, w>>] : v \in { JoinSP(ws) : ws \in WordSeqs(1) }, w \in SecondValues }

\* http.Header.Get: the first value under the key, "" when there is none.
HeaderGet(headers, key) ==
  IF key \in DOMAIN headers /\ Len(headers[key]) > 0
    THEN headers[key][1]
    ELSE EmptyStr

\* Index of the first occurrence of the character sep in s, 0 when absent.
RECURSIVE IndexFrom(_, _, _)
IndexFrom(s, sep, i) ==
  IF i > Len(s) THEN 0
  ELSE IF s[i] = sep THEN i
  ELSE IndexFrom(s, sep, i + 1)

Index(s, sep) == IndexFrom(s, sep, 1)

\* strings.Split(s, sep) for a one-character separator.
RECURSIVE Split(_, _)
Split(s, sep) ==
  LET i == Index(s, sep) IN
    IF i = 0 THEN <<s>>
    ELSE <<SubSeq(s, 1, i - 1)>> \o Split(SubSeq(s, i + 1, Len(s)), sep)

\* Mutants of GetAPIKey (plausible slips in the guard at part_000:41).
GetAPIKey_NoSchemeCheck(headers) ==
  LET authHeader == HeaderGet(headers, "Authorization") IN
    IF authHeader = EmptyStr THEN [key |-> EmptyStr, err |-> ErrNoAuthHeaderIncluded]
    ELSE LET splitAuth == Split(authHeader, SP) IN
      IF Len(splitAuth) < 2
        THEN [key |-> EmptyStr, err |-> ErrMalformed]
        ELSE [key |-> splitAuth[2], err |-> NilErr]

GetAPIKey_ExactlyTwo(headers) ==
  LET authHeader == HeaderGet(headers, "Authorization") IN
    IF authHeader = EmptyStr THEN [key |-> EmptyStr, err |-> ErrNoAuthHeaderIncluded]
    ELSE LET splitAuth == Split(authHeader, SP) IN
      IF Len(splitAuth) # 2 \/ splitAuth[1] # ApiKeyStr
        THEN [key |-> EmptyStr, err |-> ErrMalformed]
        ELSE [key |-> splitAuth[2], err |-> NilErr]

GetAPIKey_NonEmptyKey(headers) ==
  LET authHeader == HeaderGet(headers, "Authorization") IN
    IF authHeader = EmptyStr THEN [key |-> EmptyStr, err |-> ErrNoAuthHeaderIncluded]
    ELSE LET splitAuth == Split(authHeader, SP) IN
      IF Len(splitAuth) < 2 \/ splitAuth[1] # ApiKeyStr \/ splitAuth[2] = EmptyStr
        THEN [key |-> EmptyStr, err |-> ErrMalformed]
        ELSE [key |-> splitAuth[2], err |-> NilErr]

GetAPIKey_MissingForShort(headers) ==
  LET authHeader == HeaderGet(headers, "Authorization") IN
    LET splitAuth == Split(authHeader, SP) IN
      IF Len(splitAuth) < 2 THEN [key |-> EmptyStr, err |-> ErrNoAuthHeaderIncluded]
      ELSE IF splitAuth[1] # ApiKeyStr THEN [key |-> EmptyStr, err |-> ErrMalformed]
      ELSE [key |-> splitAuth[2], err |-> NilErr]

GetAPIKey_ReturnsScheme(headers) ==
  LET authHeader == HeaderGet(headers, "Authorization") IN
    IF authHeader = EmptyStr THEN [key |-> EmptyStr, err |-> ErrNoAuthHeaderIncluded]
    ELSE LET splitAuth == Split(authHeader, SP) IN
      IF Len(splitAuth) < 2 \/ splitAuth[1] # ApiKeyStr
        THEN [key |-> EmptyStr, err |-> ErrMalformed]
        ELSE [key |-> splitAuth[1], err |-> NilErr]

ToLower(s) ==
  [i \in 1..Len(s) |->
     IF s[i] = "A" THEN "a" ELSE IF s[i] = "K" THEN "k" ELSE IF s[i] = "B" THEN "b" ELSE s[i]]

GetAPIKey_EqualFold(headers) ==
  LET authHeader == HeaderGet(headers, "Authorization") IN
    IF authHeader = EmptyStr THEN [key |-> EmptyStr, err |-> ErrNoAuthHeaderIncluded]
    ELSE LET splitAuth == Split(authHeader, SP) IN
      IF Len(splitAuth) < 2 \/ ToLower(splitAuth[1]) # ToLower(ApiKeyStr)
        THEN [key |-> EmptyStr, err |-> ErrMalformed]
        ELSE [key |-> splitAuth[2], err |-> NilErr]

GetAPIKeyHeaders_Consumed(headers) == [headers EXCEPT !.Authorization = <<>>]

\* The header map after GetAPIKey returns: the function only reads it
\* (headers.Get) and splits a copy of the value.
GetAPIKeyHeaders(headers) == headers

\* auth.GetAPIKey
GetAPIKey(headers) ==
  LET authHeader == HeaderGet(headers, "Authorization") IN
    IF authHeader = EmptyStr THEN [key |-> EmptyStr, err |-> ErrNoAuthHeaderIncluded]
    ELSE LET splitAuth == Split(authHeader, SP) IN
      IF Len(splitAuth) < 2 \/ splitAuth[1] # ApiKeyStr
        THEN [key |-> EmptyStr, err |-> ErrMalformed]
        ELSE [key |-> splitAuth[2], err |-> NilErr]


\* ------------------------------------------------------------ TestGetAPIKey
\* The table-driven test, one row per behaviour: tt is the row's headers as
\* written, hdr the map handed to GetAPIKey, gots the results of the calls
\* made on it so far.
NoCase == [Authorization |-> <<>>]

RunCase ==
  /\ tpc \in {"call", "check"}
  /\ Len(gots) < MaxCalls
  /\ gots' = Append(gots, GetAPIKey(hdr))
  /\ hdr' = GetAPIKeyHeaders(hdr)
  /\ tpc' = "check"
  /\ UNCHANGED <<tt, serverVars>>

\* ------------------------------------------------------------ json.go
StatusUnauthorized == 401
StatusInternalServerError == 500

JSONType == "application/json"
NoResp == [by |-> "none", status |-> 0, ctype |-> "", body |-> <<>>]

\* json.Marshal of errorResponse{Error: msg}: the object with the one field
\* "error" (the messages used hold no character that is escaped).
Marshal(payload) == [ok |-> TRUE, dat |-> <<"{\"error\":\"", payload.Error, "\"}">>]

respondWithJSON_NoWriteHeader(w, code, payload) ==
  LET m == Marshal(payload) IN
    [w EXCEPT !.ctype = JSONType, !.status = 200, !.body = m.dat]

\* respondWithJSON: the response after the call (body = the bytes handed to
\* w.Write).
respondWithJSON(w, code, payload) ==
  LET m == Marshal(payload) IN
    IF ~m.ok
      THEN [w EXCEPT !.ctype = JSONType, !.status = StatusInternalServerError]
      ELSE [w EXCEPT !.ctype = JSONType, !.status = code, !.body = m.dat]

\* The lines respondWithError writes to the log.
errorLog(code, msg, logErr) ==
  (IF logErr # NilErr THEN <<[kind |-> "err", text |-> logErr]>> ELSE <<>>)
    \o (IF code > 499 THEN <<[kind |-> "5XX", text |-> msg]>> ELSE <<>>)

respondWithError(w, code, msg, logErr) ==
  respondWithJSON(w, code, [Error |-> msg])

\* ------------------------------------------------------------ main.go routes
CRUDRoutes == {"POST /users", "GET /users", "GET /notes", "POST /notes"}
Routes == CRUDRoutes \cup {"GET /healthz"}

v1Router_NotesOpen(db) ==
  (IF db
     THEN { [route |-> "POST /users", handler |-> "handlerUsersCreate", auth |-> FALSE],
            [route |-> "GET /users", handler |-> "handlerUsersGet", auth |-> TRUE],
            [route |-> "GET /notes", handler |-> "handlerNotesGet", auth |-> FALSE],
            [route |-> "POST /notes", handler |-> "handlerNotesCreate", auth |-> TRUE] }
     ELSE {})
    \cup { [route |-> "GET /healthz", handler |-> "handlerReadiness", auth |-> FALSE] }

\* The routes main registers on v1Router: auth = wrapped in middlewareAuth.
v1Router(db) ==
  (IF db
     THEN { [route |-> "POST /users", handler |-> "handlerUsersCreate", auth |-> FALSE],
            [route |-> "GET /users", handler |-> "handlerUsersGet", auth |-> TRUE],
            [route |-> "GET /notes", handler |-> "handlerNotesGet", auth |-> TRUE],
            [route |-> "POST /notes", handler |-> "handlerNotesCreate", auth |-> TRUE] }
     ELSE {})
    \cup { [route |-> "GET /healthz", handler |-> "handlerReadiness", auth |-> FALSE] }


\* ------------------------------------------------------------ requests
Reqs == 1..NumReqs

Keys == { <<"k">> }

\* Authorization headers the concurrent requests carry.
GuardHeaders ==
  { [Authorization |-> <<>>],
    [Authorization |-> <<ApiKeyStr \o <<SP, "k">>>>],
    [Authorization |-> <<ApiKeyStr \o <<SP>>>>],
    [Authorization |-> <<<<"a", "p", "i", "k", "e", "y", SP, "k">>>>],
    [Authorization |-> <<ApiKeyStr \o <<SP, "k", SP, "k", "2">>>>] }

HandlerStatuses == {200, 500}

Idle ==
  [pc |-> "idle", route |-> "", headers |-> NoCase, guard |-> FALSE,
   apiKey |-> EmptyStr, outcomes |-> <<>>, handler |-> "none",
   resp |-> NoResp, logged |-> <<>>]

MsgUnauthorized == "unauthorized"
MsgServerError == "internal server error"

\* The Guard ends the request itself: one outcome, one error response.
Reject(q, outcome, code, msg, logErr) ==
  [q EXCEPT !.pc = "done",
            !.outcomes = Append(@, outcome),
            !.resp = respondWithError([@ EXCEPT !.by = "guard"], code, msg, logErr),
            !.logged = @ \o errorLog(code, msg, logErr)]

\* A handler runs and writes its own response.
Invoke(q, h, status) ==
  [q EXCEPT !.pc = "done", !.handler = h,
            !.resp = [@ EXCEPT !.by = "handler", !.status = status]]

Entry(route) == { e \in v1Router(dbConfigured) : e.route = route }

\* A request arrives for a path no route matches: the router answers 404.
ArriveUnrouted(r) ==
  /\ req[r].pc = "idle"
  /\ \E route \in Routes, h \in GuardHeaders :
       /\ Entry(route) = {}
       /\ req' = [req EXCEPT ![r] =
            [Idle EXCEPT !.pc = "done", !.route = route, !.headers = h,
                         !.resp = [NoResp EXCEPT !.by = "router", !.status = 404]]]
  /\ UNCHANGED <<dbConfigured, store, testVars>>

\* A request arrives on a route registered without middlewareAuth: its
\* handler runs at once (handlerUsersCreate may add a user to the store).
ArriveOpen(r) ==
  /\ req[r].pc = "idle"
  /\ \E route \in Routes, h \in GuardHeaders, st \in HandlerStatuses :
       \E e \in Entry(route) :
         /\ ~e.auth
         /\ req' = [req EXCEPT ![r] =
              Invoke([Idle EXCEPT !.route = route, !.headers = h], e.handler, st)]
         /\ IF e.handler = "handlerUsersCreate" /\ st = 200
              THEN \E k \in Keys : store' = store \cup {k}
              ELSE store' = store
  /\ UNCHANGED <<dbConfigured, testVars>>

\* A request arrives on a route wrapped in middlewareAuth.
ArriveGuarded(r) ==
  /\ req[r].pc = "idle"
  /\ \E route \in Routes, h \in GuardHeaders :
       \E e \in Entry(route) :
         /\ e.auth
         /\ req' = [req EXCEPT ![r] =
              [Idle EXCEPT !.pc = "auth", !.route = route, !.headers = h,
                           !.guard = TRUE, !.handler = "none"]]
  /\ UNCHANGED <<dbConfigured, store, testVars>>

HandlerOf(route) == (CHOOSE e \in Entry(route) : TRUE).handler

\* middlewareAuth, first half: the Extractor and its two failures.
Extract(r) ==
  /\ req[r].pc = "auth"
  /\ LET res == GetAPIKey(req[r].headers)
         q == [req[r] EXCEPT !.headers = GetAPIKeyHeaders(@)]
     IN req' = [req EXCEPT ![r] =
          IF res.err = ErrNoAuthHeaderIncluded
            THEN Reject(q, "MissingCredential", StatusUnauthorized, ErrNoAuthHeaderIncluded, NilErr)
          ELSE IF res.err # NilErr
            THEN Reject(q, "MalformedCredential", StatusUnauthorized, ErrMalformed, NilErr)
          ELSE [q EXCEPT !.pc = "lookup", !.apiKey = res.key]]
  /\ UNCHANGED <<dbConfigured, store, testVars>>

\* middlewareAuth, second half: the identity lookup and what follows it.
LookupFail(r) ==
  /\ req[r].pc = "lookup"
  /\ req' = [req EXCEPT ![r] =
       Reject(@, "LookupFailure", StatusInternalServerError, MsgServerError, "storage unavailable")]
  /\ UNCHANGED <<dbConfigured, store, testVars>>

LookupMiss_Delegates(r) ==
  /\ req[r].pc = "lookup"
  /\ req[r].apiKey \notin store
  /\ \E st \in HandlerStatuses :
       req' = [req EXCEPT ![r] =
         Invoke([@ EXCEPT !.outcomes = Append(@, "UnknownCredential")], HandlerOf(@.route), st)]
  /\ UNCHANGED <<dbConfigured, store, testVars>>

LookupMiss(r) ==
  /\ req[r].pc = "lookup"
  /\ req[r].apiKey \notin store
  /\ req' = [req EXCEPT ![r] =
       Reject(@, "UnknownCredential", StatusUnauthorized, MsgUnauthorized, NilErr)]
  /\ UNCHANGED <<dbConfigured, store, testVars>>

LookupHit(r) ==
  /\ req[r].pc = "lookup"
  /\ req[r].apiKey \in store
  /\ \E st \in HandlerStatuses :
       req' = [req EXCEPT ![r] =
         Invoke([@ EXCEPT !.outcomes = Append(@, "Authenticated")], HandlerOf(@.route), st)]
  /\ UNCHANGED <<dbConfigured, store, testVars>>

\* The response is sent and the slot is free for the next request.
Complete(r) ==
  /\ req[r].pc = "done"
  /\ req' = [req EXCEPT ![r] = Idle]
  /\ UNCHANGED <<dbConfigured, store, testVars>>

\* ------------------------------------------------------------ specifications
Init ==
  /\ dbConfigured \in BOOLEAN
  /\ store \in SUBSET Keys
  /\ req = [r \in Reqs |-> Idle]
  /\ tt = NoCase
  /\ hdr = NoCase
  /\ gots = <<>>
  /\ tpc = "off"

Next ==
  \E r \in Reqs :
    \/ ArriveUnrouted(r)
    \/ ArriveOpen(r)
    \/ ArriveGuarded(r)
    \/ Extract(r)
    \/ LookupFail(r)
    \/ LookupMiss(r)
    \/ LookupHit(r)
    \/ Complete(r)

Spec == Init /\ [][Next]_vars

\* The extractor alone, driven as TestGetAPIKey drives it.
InitTest ==
  /\ dbConfigured = FALSE
  /\ store = {}
  /\ req = [r \in Reqs |-> Idle]
  /\ tt \in AllHeaders
  /\ hdr = tt
  /\ gots = <<>>
  /\ tpc = "call"

NextTest == RunCase

SpecTest == InitTest /\ [][NextTest]_vars


\* ------------------------------------------------------------ vocabulary of the claims
HasSpace(s) == \E i \in 1..Len(s) : s[i] = SP

IsPrefix(p, s) == Len(p) <= Len(s) /\ SubSeq(s, 1, Len(p)) = p

\* The header value a request presents: the first value listed, "" if none.
Value(h) == IF h.Authorization = <<>> THEN EmptyStr ELSE Head(h.Authorization)

\* The longest space-free prefix of s.
FirstToken(s) ==
  LET n == CHOOSE n \in 0..Len(s) :
             /\ \A i \in 1..n : s[i] # SP
             /\ n = Len(s) \/ s[n + 1] = SP
  IN SubSeq(s, 1, n)

\* What follows the first space of s, up to the next space.
SecondToken(s) == FirstToken(SubSeq(s, Len(FirstToken(s)) + 2, Len(s)))

Scheme == ApiKeyStr \o <<SP>>
Checked == tpc = "check"

\* The result of the latest call.
got == gots[Len(gots)]

\* C3: for a header value "ApiKey <token>" whose <token> holds no space,
\* GetAPIKey returns <token> unchanged and a nil error.
C3_ExactShape ==
  LET v == Value(tt)
      token == SubSeq(v, Len(Scheme) + 1, Len(v))
  IN (Checked /\ IsPrefix(Scheme, v) /\ ~HasSpace(token))
       => got = [key |-> token, err |-> NilErr]

C3_Witness ==
  /\ Checked
  /\ Value(tt) = Scheme \o <<"k", "2">>
  /\ got = [key |-> <<"k", "2">>, err |-> NilErr]

\* C4: a header value with no space in it (fewer than two tokens) fails as
\* malformed, except that an absent or empty value fails with
\* ErrNoAuthHeaderIncluded; and ErrNoAuthHeaderIncluded is returned for the
\* absent or empty value only.
C4_FewerThanTwo ==
  LET v == Value(tt) IN
    Checked =>
      /\ (~HasSpace(v) /\ v = EmptyStr) => got = [key |-> EmptyStr, err |-> ErrNoAuthHeaderIncluded]
      /\ (~HasSpace(v) /\ v # EmptyStr) => got = [key |-> EmptyStr, err |-> ErrMalformed]
      /\ (got.err = ErrNoAuthHeaderIncluded) <=> (v = EmptyStr)

C4_Witness ==
  /\ Checked
  /\ Value(tt) = ApiKeyStr
  /\ got = [key |-> EmptyStr, err |-> ErrMalformed]

\* C5: a non-empty header value whose first token is not exactly "ApiKey"
\* fails as malformed with the empty string as key.
C5_WrongScheme ==
  LET v == Value(tt) IN
    (Checked /\ v # EmptyStr /\ FirstToken(v) # ApiKeyStr)
      => got = [key |-> EmptyStr, err |-> ErrMalformed]

C5_Witness ==
  /\ Checked
  /\ Value(tt) = <<"a", "p", "i", "k", "e", "y", SP, "k">>
  /\ got.err = ErrMalformed

GuardOutcomes ==
  {"Authenticated", "MissingCredential", "MalformedCredential", "UnknownCredential",
   "LookupFailure"}

C2_AllCRUDGuarded ==
  \A r \in Reqs :
    (req[r].route \in CRUDRoutes /\ req[r].handler # "none")
      => (req[r].guard /\ req[r].outcomes = <<"Authenticated">>)

\* C2 amended: GET /users, GET /notes and POST /notes reach their handler
\* only through middlewareAuth, with outcome Authenticated; POST /users is
\* registered without it, and its handler runs with no outcome produced
\* (the CRUD routes exist only when the database is configured).
C2_WrappedCRUDGuarded ==
  \A r \in Reqs :
    /\ (req[r].route \in CRUDRoutes \ {"POST /users"} /\ req[r].handler # "none")
         => (req[r].guard /\ req[r].outcomes = <<"Authenticated">>)
    /\ (dbConfigured /\ req[r].route \in CRUDRoutes \ {"POST /users"} /\ req[r].pc # "idle")
         => req[r].guard
    /\ (dbConfigured /\ req[r].route = "POST /users" /\ req[r].pc # "idle")
         => (~req[r].guard /\ req[r].outcomes = <<>> /\ req[r].handler = "handlerUsersCreate")

C2_Witness ==
  \E r1, r2 \in Reqs :
    /\ req[r1].route = "GET /notes" /\ req[r1].handler = "handlerNotesGet"
    /\ req[r2].route = "POST /users" /\ req[r2].handler = "handlerUsersCreate"
    /\ Value(req[r2].headers) = EmptyStr

\* The message the Guard sends for each outcome it answers itself.
MessageOf(o) ==
  IF o = "MissingCredential" THEN "no authorization header included"
  ELSE IF o = "MalformedCredential" THEN "malformed authorization header"
  ELSE IF o = "UnknownCredential" THEN "unauthorized"
  ELSE "internal server error"

\* C8: a response the Guard writes itself has status 401 for a missing,
\* malformed or unknown credential and 500 for a failed lookup, nothing else,
\* and is the JSON object {"error": <message>}.
C8_GuardStatuses ==
  \A r \in Reqs :
    /\ (req[r].resp.by = "guard") =>
         /\ Len(req[r].outcomes) = 1
         /\ req[r].outcomes[1] \in GuardOutcomes \ {"Authenticated"}
         /\ req[r].resp.status = (IF req[r].outcomes[1] = "LookupFailure" THEN 500 ELSE 401)
         /\ req[r].resp.ctype = "application/json"
         /\ req[r].resp.body = <<"{\"error\":\"", MessageOf(req[r].outcomes[1]), "\"}">>
    /\ (req[r].outcomes # <<>> /\ req[r].outcomes # <<"Authenticated">>)
         => req[r].resp.by = "guard"

C8_Witness ==
  \E r1, r2 \in Reqs :
    /\ req[r1].resp.by = "guard" /\ req[r1].resp.status = 500
    /\ req[r2].resp.by = "guard" /\ req[r2].resp.status = 401
    /\ req[r2].outcomes = <<"MalformedCredential">>

\* The outcomes a request with headers h may end with when the store holds st.
OutcomesFor(h, st) ==
  LET v == Value(h) IN
    IF v = EmptyStr THEN {"MissingCredential"}
    ELSE IF ~(FirstToken(v) = ApiKeyStr /\ HasSpace(v)) THEN {"MalformedCredential"}
    ELSE {"LookupFailure"}
           \cup (IF SecondToken(v) \in st THEN {"Authenticated"} ELSE {"UnknownCredential"})

\* C9: in every step of every interleaving, at most one request changes, and
\* an outcome produced in the step is one its own headers and the store's
\* content at that moment allow, whatever the other requests are doing.
C9_OwnCredentialOnly ==
  [][\A r \in Reqs :
       /\ (req'[r] # req[r]) => \A r2 \in Reqs \ {r} : req'[r2] = req[r2]
       /\ (req'[r].outcomes # req[r].outcomes /\ req'[r].outcomes # <<>>)
            => \E o \in OutcomesFor(req[r].headers, store) : req'[r].outcomes = <<o>>]_vars

C9_Witness ==
  \E r1, r2 \in Reqs :
    /\ req[r1].pc = "lookup" /\ req[r1].apiKey \in store
    /\ req[r2].pc = "done" /\ req[r2].outcomes = <<"UnknownCredential">>
    /\ req[r2].headers = req[r1].headers


====
